---- MODULE Spec2Model ----
(***************************************************************************)
(* Model of the ECG verification pushdown automaton (class ECGPDA of       *)
(* src/pda/automaton.py): the transition table built by                    *)
(* _build_transitions, the run-time configuration (current_state, stack),  *)
(* and the operations reset, step, accepts, get_max_stack_depth and        *)
(* compute_vcs.                                                            *)
(*                                                                         *)
(* A Python list used as a stack is a sequence whose LAST element is the   *)
(* top (list.append pushes, list.pop() pops, stack[-1] reads the top).     *)
(* Tokens are strings; the confirm token U+2713 is written "check".        *)
(***************************************************************************)
EXTENDS Naturals, Integers, Sequences, FiniteSets, TLC

VARIABLES
    current_state,  \* self.current_state
    stack,          \* self.stack
    scanpath,       \* the tokenized scanpath the analysis methods are called with
    lastOp,         \* the method called last
    lastSym,        \* its symbol argument, when it was step
    lastRet,        \* the value it returned
    reused          \* whether that call found the engine away from the
                    \* configuration the constructor leaves

vars == <<current_state, stack, scanpath, lastOp, lastSym, lastRet, reused>>

(***************************************************************************)
(* Bounds of the model.                                                    *)
(***************************************************************************)
\* longest body of a generated scanpath
MaxLen == 4
\* longest run of confirm tokens appended to a generated body
MaxConfirms == 7
\* deepest stack a free-standing step call may build
MaxStack == 6
\* longest generated scanpath tried on an engine that is also stepped by hand
MaxShort == 2

(***************************************************************************)
(* ECGPDA.__init__: states, alphabets.                                     *)
(***************************************************************************)
Confirm == "check"

Q == {"q0", "q1", "q2", "q3", "q4", "q5", "q6"}
q0 == "q0"
F == {"q6"}

sigma_leads == <<"I", "II", "III", "aR", "aL", "aF",
                 "V1", "V2", "V3", "V4", "V5", "V6">>
sigma_features == <<"P", "Q", "S", "T", "R">>
sigma_actions == <<"O", "C", "A">>
sigma_verification == <<"V", Confirm>>

gamma == {"Z0", "Rm", "Lm", "Fm", "Vm"}

Range(s) == {s[i] : i \in DOMAIN s}

Leads == Range(sigma_leads)
Features == Range(sigma_features)
Sigma == Leads \cup Features \cup Range(sigma_actions) \cup Range(sigma_verification)

\* a token outside the declared alphabet (step does not validate its input)
Foreign == "X"
Symbols == Sigma \cup {Foreign}

(***************************************************************************)
(* ECGPDA._build_transitions: the assignments delta[key] = value in the    *)
(* order the code performs them; a later assignment to the same key        *)
(* overwrites an earlier one, as in a Python dict.                         *)
(***************************************************************************)
Rule(q, a, top, q2, stack_action) == << <<q, a, top>>, <<q2, stack_action>> >>

\* the assignments of a for loop, in order: bodies[1], bodies[2], ..., each the
\* assignments of one iteration (all iterations assign equally many keys)
ForEach(bodies) ==
    LET n == Len(bodies[1])
    IN  [i \in 1..(Len(bodies) * n) |-> bodies[((i - 1) \div n) + 1][((i - 1) % n) + 1]]

\* mutant: the overview loop is keyed on q6 instead of q1
Phase1LoopsInQ6 == << Rule("q0", "O", "Z0", "q1", <<"Z0">>),
                      Rule("q6", "O", "Z0", "q6", <<"Z0">>) >>

Phase1 == << Rule("q0", "O", "Z0", "q1", <<"Z0">>),
             Rule("q1", "O", "Z0", "q1", <<"Z0">>) >>

\* mutant: the rhythm rule forgets to put Z0 back under Rm
Phase2DropsFloor == << Rule("q1", "R", "Z0", "q2", <<"Rm">>),
                       Rule("q2", "R", "Rm", "q2", <<"Rm">>) >>

Phase2 == << Rule("q1", "R", "Z0", "q2", <<"Rm", "Z0">>),
             Rule("q2", "R", "Rm", "q2", <<"Rm">>) >>

\* mutant: a new lead from the feature state swaps Fm for Lm and pushes nothing
Phase3BodySwaps(lead) == << Rule("q2", lead, "Rm", "q3", <<"Lm", "Rm">>),
                            Rule("q3", lead, "Lm", "q3", <<"Lm">>),
                            Rule("q4", lead, "Fm", "q3", <<"Lm">>) >>

Phase3Body(lead) == << Rule("q2", lead, "Rm", "q3", <<"Lm", "Rm">>),
                       Rule("q3", lead, "Lm", "q3", <<"Lm">>),
                       Rule("q4", lead, "Fm", "q3", <<"Lm", "Rm">>) >>
Phase3 == ForEach([i \in DOMAIN sigma_leads |-> Phase3Body(sigma_leads[i])])

Phase4Body(feat) == << Rule("q3", feat, "Lm", "q4", <<"Fm", "Lm">>),
                       Rule("q4", feat, "Fm", "q4", <<"Fm">>) >>
Phase4 == ForEach([i \in DOMAIN sigma_features |-> Phase4Body(sigma_features[i])])

\* mutant: verification can be started from the lead level only
Phase5LeadOnly == << Rule("q3", "V", "Lm", "q5", <<"Vm", "Lm">>) >>

Phase5 == << Rule("q4", "V", "Fm", "q5", <<"Vm", "Fm">>),
             Rule("q3", "V", "Lm", "q5", <<"Vm", "Lm">>) >>

\* mutant: a confirm on the rhythm marker pops it
Phase6UnwindPopsRm == << Rule("q5", Confirm, "Fm", "q5", <<>>),
                         Rule("q5", Confirm, "Lm", "q5", <<>>),
                         Rule("q5", Confirm, "Vm", "q5", <<>>),
                         Rule("q5", Confirm, "Rm", "q5", <<>>) >>

\* mutant: a confirm on the verification marker keeps it
Phase6UnwindKeepsVm == << Rule("q5", Confirm, "Fm", "q5", <<>>),
                          Rule("q5", Confirm, "Lm", "q5", <<>>),
                          Rule("q5", Confirm, "Vm", "q5", <<"Vm">>),
                          Rule("q5", Confirm, "Rm", "q5", <<"Rm">>) >>

\* mutant: the rhythm-level confirm moves to q6 instead of staying in q5
Phase6UnwindCompletes == << Rule("q5", Confirm, "Fm", "q5", <<>>),
                            Rule("q5", Confirm, "Lm", "q5", <<>>),
                            Rule("q5", Confirm, "Vm", "q5", <<>>),
                            Rule("q5", Confirm, "Rm", "q6", <<"Rm">>) >>

Phase6Unwind == << Rule("q5", Confirm, "Fm", "q5", <<>>),
                   Rule("q5", Confirm, "Lm", "q5", <<>>),
                   Rule("q5", Confirm, "Vm", "q5", <<>>),
                   Rule("q5", Confirm, "Rm", "q5", <<"Rm">>) >>

Phase6LeadBody(lead) == << Rule("q5", lead, "Vm", "q5", <<"Vm">>),
                           Rule("q5", lead, "Rm", "q5", <<"Rm">>),
                           Rule("q5", lead, "Lm", "q5", <<"Lm">>),
                           Rule("q5", lead, "Fm", "q5", <<"Fm">>) >>
Phase6Leads == ForEach([i \in DOMAIN sigma_leads |-> Phase6LeadBody(sigma_leads[i])])

Phase6FeatBody(feat) == << Rule("q5", feat, "Vm", "q5", <<"Vm">>),
                           Rule("q5", feat, "Fm", "q5", <<"Fm">>),
                           Rule("q5", feat, "Lm", "q5", <<"Lm">>) >>
Phase6Feats == ForEach([i \in DOMAIN sigma_features |-> Phase6FeatBody(sigma_features[i])])

\* mutant: the feature-level completion rule is keyed on q4 instead of q5
Phase7FromFeatureState == << Rule("q5", "O", "Rm", "q6", <<"Z0">>),
                             Rule("q5", "O", "Z0", "q6", <<"Z0">>),
                             Rule("q5", "O", "Lm", "q6", <<"Z0">>),
                             Rule("q4", "O", "Fm", "q6", <<"Z0">>) >>

Phase7 == << Rule("q5", "O", "Rm", "q6", <<"Z0">>),
             Rule("q5", "O", "Z0", "q6", <<"Z0">>),
             Rule("q5", "O", "Lm", "q6", <<"Z0">>),
             Rule("q5", "O", "Fm", "q6", <<"Z0">>) >>

Assignments == Phase1 \o Phase2 \o Phase3 \o Phase4 \o Phase5
               \o Phase6Unwind \o Phase6Leads \o Phase6Feats \o Phase7

Keys == {Assignments[i][1] : i \in DOMAIN Assignments}

LastAssignment(key) ==
    CHOOSE i \in DOMAIN Assignments :
        /\ Assignments[i][1] = key
        /\ \A j \in DOMAIN Assignments : Assignments[j][1] = key => j <= i

\* the dict returned by _build_transitions
delta == [key \in Keys |-> Assignments[LastAssignment(key)][2]]

(***************************************************************************)
(* Configurations and the operations on them.                              *)
(***************************************************************************)
Config(q, stk) == [state |-> q, stack |-> stk]

\* mutant: reset forgets the stack
resetStateOnly(cfg) == Config(q0, cfg.stack)

\* mutant: the analysis methods run on the configuration they find
resetNothing(cfg) == cfg

\* ECGPDA.reset, and the configuration __init__ leaves
reset(cfg) == Config(q0, <<"Z0">>)

Reverse(s) == [i \in 1..Len(s) |-> s[Len(s) + 1 - i]]

RECURSIVE AppendAll(_, _)
\* for symbol in items: stack.append(symbol)
AppendAll(stk, items) ==
    IF items = <<>> THEN stk ELSE AppendAll(Append(stk, Head(items)), Tail(items))

\* self.stack.pop()
Pop(stk) == SubSeq(stk, 1, Len(stk) - 1)

\* mutant: the replacement is appended in the order the table writes it
UpdateStackForward(stk, stack_action) == AppendAll(Pop(stk), stack_action)

\* step's stack update: pop, then append the items of reversed(stack_action)
UpdateStack(stk, stack_action) == AppendAll(Pop(stk), Reverse(stack_action))

\* mutant: the top is popped before the table is consulted
stepPopsBeforeLookup(cfg, symbol) ==
    IF cfg.stack = <<>>
    THEN [ret |-> FALSE, cfg |-> cfg]
    ELSE LET stack_top == cfg.stack[Len(cfg.stack)]
             key == <<cfg.state, symbol, stack_top>>
         IN  IF key \notin DOMAIN delta
             THEN [ret |-> FALSE, cfg |-> Config(cfg.state, Pop(cfg.stack))]
             ELSE [ret |-> TRUE,
                   cfg |-> Config(delta[key][1],
                                  AppendAll(Pop(cfg.stack), Reverse(delta[key][2])))]

\* ECGPDA.step on a configuration: the value returned and the configuration left
step(cfg, symbol) ==
    IF cfg.stack = <<>>
    THEN [ret |-> FALSE, cfg |-> cfg]
    ELSE LET stack_top == cfg.stack[Len(cfg.stack)]
             key == <<cfg.state, symbol, stack_top>>
         IN  IF key \notin DOMAIN delta
             THEN [ret |-> FALSE, cfg |-> cfg]
             ELSE [ret |-> TRUE,
                   cfg |-> Config(delta[key][1],
                                  UpdateStack(cfg.stack, delta[key][2]))]

\* ECGPDA.get_stack_depth
get_stack_depth(cfg) == Len(cfg.stack) - 1

RECURSIVE AcceptsLoopRunsOn(_, _)
\* mutant: a failed step is remembered and the remaining symbols still processed
AcceptsLoopRunsOn(cfg, symbols) ==
    IF symbols = <<>>
    THEN [completed |-> TRUE, cfg |-> cfg]
    ELSE LET r == step(cfg, Head(symbols))
             rest == AcceptsLoopRunsOn(r.cfg, Tail(symbols))
         IN  [completed |-> r.ret /\ rest.completed, cfg |-> rest.cfg]

RECURSIVE AcceptsLoop(_, _)
\* accepts' loop: for symbol in symbols: if not self.step(symbol): return False
\* completed is FALSE when the loop returned early
AcceptsLoop(cfg, symbols) ==
    IF symbols = <<>>
    THEN [completed |-> TRUE, cfg |-> cfg]
    ELSE LET r == step(cfg, Head(symbols))
         IN  IF ~r.ret
             THEN [completed |-> FALSE, cfg |-> r.cfg]
             ELSE AcceptsLoop(r.cfg, Tail(symbols))

\* mutant: the state test is forgotten
AcceptanceConditionStackOnly(cfg) == "Z0" \in Range(cfg.stack)

\* the acceptance condition: current_state in F and 'Z0' in stack
AcceptanceCondition(cfg) == cfg.state \in F /\ "Z0" \in Range(cfg.stack)

\* ECGPDA.accepts on a configuration and a tokenized scanpath
accepts(cfg, symbols) ==
    LET run == AcceptsLoop(reset(cfg), symbols)
    IN  IF ~run.completed
        THEN [ret |-> FALSE, cfg |-> run.cfg]
        ELSE [ret |-> AcceptanceCondition(run.cfg), cfg |-> run.cfg]

Max(a, b) == IF a >= b THEN a ELSE b

RECURSIVE DepthLoopAborts(_, _, _)
\* mutant: the loop stops at the first failed step, as accepts' loop does
DepthLoopAborts(cfg, max_depth, symbols) ==
    IF symbols = <<>>
    THEN [ret |-> max_depth, cfg |-> cfg]
    ELSE LET r == step(cfg, Head(symbols))
             depth == get_stack_depth(r.cfg)
         IN  IF ~r.ret
             THEN [ret |-> max_depth, cfg |-> r.cfg]
             ELSE DepthLoopAborts(r.cfg, Max(max_depth, depth), Tail(symbols))

RECURSIVE DepthLoop(_, _, _)
\* get_max_stack_depth's loop: step (result ignored), then fold the depth in
DepthLoop(cfg, max_depth, symbols) ==
    IF symbols = <<>>
    THEN [ret |-> max_depth, cfg |-> cfg]
    ELSE LET r == step(cfg, Head(symbols))
             depth == get_stack_depth(r.cfg)
         IN  DepthLoop(r.cfg, Max(max_depth, depth), Tail(symbols))

\* ECGPDA.get_max_stack_depth
get_max_stack_depth(cfg, symbols) == DepthLoop(reset(cfg), 0, symbols)

\* mutant: every token is counted
CountEveryToken(symbols, token) == Len(symbols)

\* symbols.count(token)
Count(symbols, token) == Cardinality({i \in DOMAIN symbols : symbols[i] = token})

(***************************************************************************)
(* Scores are Python floats k / 6.0 and 1.0; the model writes a score as   *)
(* the pair <<numerator, denominator>> and compares by cross               *)
(* multiplication.                                                         *)
(***************************************************************************)
VcsDivisor == 6
One == <<1, 1>>
ScoreLeq(a, b) == a[1] * b[2] <= b[1] * a[2]
ScoreEq(a, b) == a[1] * b[2] = b[1] * a[2]
\* mutant: the cap at 1.0 is forgotten
MinWithOneUncapped(verification_count) == <<verification_count, VcsDivisor>>

\* min(verification_count / 6.0, 1.0)
MinWithOne(verification_count) ==
    IF ScoreLeq(One, <<verification_count, VcsDivisor>>)
    THEN One
    ELSE <<verification_count, VcsDivisor>>

\* ECGPDA.compute_vcs
compute_vcs(cfg, symbols) ==
    LET a == accepts(cfg, symbols)
    IN  IF a.ret
        THEN [ret |-> One, cfg |-> a.cfg]
        ELSE [ret |-> MinWithOne(Count(symbols, Confirm)), cfg |-> a.cfg]

(***************************************************************************)
(* Inputs.                                                                 *)
(***************************************************************************)
\* the scanpaths of demo() and of the tests
ReferenceScanpaths ==
    { <<"O", "R", "II", "P", "Q", "V", Confirm, Confirm, "O">>,
      <<"O", "R", "II", "P", "Q">>,
      <<"O", "R", "II", "P", "Q", "V", Confirm>>,
      <<"O", "R", "II", "P", "Q", "S", "T">>,
      <<"O", "R", "II", "P", "Q", "S", "T", "V1", "P", "Q", "V", "II", Confirm,
        "V1", Confirm, "O">>,
      <<"O", "R", "II", "P", "Q", "V1", "P">>,
      <<"O", "R", "II", "P">> }

\* the tokens generated scanpaths are made of
BodyTokens == {"O", "R", "II", "P", "V", Confirm}

BoundedSeq(S, n) == UNION {[1..k -> S] : k \in 0..n}

Confirms(n) == [i \in 1..n |-> Confirm]

\* a body, a run of confirms, and an optional closing open action
GeneratedScanpaths ==
    { b \o Confirms(n) \o t :
        b \in BoundedSeq(BodyTokens, MaxLen), n \in 0..MaxConfirms,
        t \in {<<>>, <<"O">>} }

\* a scanpath of demo() or of the tests with one more token after its end
OverrunScanpaths == {r \o <<a>> : r \in ReferenceScanpaths, a \in BodyTokens}

Scanpaths == GeneratedScanpaths \cup ReferenceScanpaths \cup OverrunScanpaths

\* the scanpaths tried on an engine that is also stepped by hand
ShortScanpaths ==
    BoundedSeq(BodyTokens, MaxShort) \cup ReferenceScanpaths \cup OverrunScanpaths

(***************************************************************************)
(* The engine: one action per public method.                               *)
(***************************************************************************)
Current == Config(current_state, stack)

\* the configuration __init__ leaves (lines 43-44)
Fresh == Config(q0, <<"Z0">>)

Init ==
    /\ current_state = q0
    /\ stack = <<"Z0">>
    /\ scanpath \in ShortScanpaths
    /\ lastOp = "init"
    /\ lastSym = "none"
    /\ lastRet = "none"
    /\ reused = FALSE

InitAnalysis ==
    /\ current_state = q0
    /\ stack = <<"Z0">>
    /\ scanpath \in Scanpaths
    /\ lastOp = "init"
    /\ lastSym = "none"
    /\ lastRet = "none"
    /\ reused = FALSE

Reset ==
    /\ current_state' = reset(Current).state
    /\ stack' = reset(Current).stack
    /\ lastOp' = "reset"
    /\ lastSym' = "none"
    /\ lastRet' = "none"
    /\ reused' = (Current # Fresh)
    /\ UNCHANGED scanpath

Step ==
    \E symbol \in Symbols :
        LET r == step(Current, symbol)
        IN  /\ Len(r.cfg.stack) > Len(stack) => Len(r.cfg.stack) <= MaxStack
            /\ current_state' = r.cfg.state
            /\ stack' = r.cfg.stack
            /\ lastOp' = "step"
            /\ lastSym' = symbol
            /\ lastRet' = r.ret
            /\ reused' = (Current # Fresh)
        /\ UNCHANGED scanpath

Accepts ==
    LET r == accepts(Current, scanpath)
    IN  /\ current_state' = r.cfg.state
        /\ stack' = r.cfg.stack
        /\ lastOp' = "accepts"
        /\ lastSym' = "none"
        /\ lastRet' = r.ret
        /\ reused' = (Current # Fresh)
        /\ UNCHANGED scanpath

GetMaxStackDepth ==
    LET r == get_max_stack_depth(Current, scanpath)
    IN  /\ current_state' = r.cfg.state
        /\ stack' = r.cfg.stack
        /\ lastOp' = "get_max_stack_depth"
        /\ lastSym' = "none"
        /\ lastRet' = r.ret
        /\ reused' = (Current # Fresh)
        /\ UNCHANGED scanpath

ComputeVcs ==
    LET r == compute_vcs(Current, scanpath)
    IN  /\ current_state' = r.cfg.state
        /\ stack' = r.cfg.stack
        /\ lastOp' = "compute_vcs"
        /\ lastSym' = "none"
        /\ lastRet' = r.ret
        /\ reused' = (Current # Fresh)
        /\ UNCHANGED scanpath

Next == Reset \/ Step \/ Accepts \/ GetMaxStackDepth \/ ComputeVcs

Spec == Init /\ [][Next]_vars

NextAnalysis == Reset \/ Accepts \/ GetMaxStackDepth \/ ComputeVcs

SpecAnalysis == InitAnalysis /\ [][NextAnalysis]_vars

(***************************************************************************)
(* Vocabulary of the properties.                                           *)
(***************************************************************************)
Top(stk) == stk[Len(stk)]

\* the replay of a scanpath from (q0, [Z0]), one configuration per prefix,
\* a symbol with no legal move leaving the configuration as it was
Replay(symbols) ==
    LET cfgAfter[i \in 0..Len(symbols)] ==
            IF i = 0
            THEN Config("q0", <<"Z0">>)
            ELSE LET before == cfgAfter[i - 1]
                     moved == step(before, symbols[i])
                 IN  IF moved.ret THEN moved.cfg ELSE before
    IN  cfgAfter

\* every symbol of the scanpath has a legal move when its turn comes
EveryStepSucceeds(symbols) ==
    \A i \in 1..Len(symbols) : step(Replay(symbols)[i - 1], symbols[i]).ret

\* the run described by the acceptance contract
AcceptedRun(symbols) ==
    /\ EveryStepSucceeds(symbols)
    /\ Replay(symbols)[Len(symbols)].state = "q6"
    /\ \E i \in DOMAIN Replay(symbols)[Len(symbols)].stack :
           Replay(symbols)[Len(symbols)].stack[i] = "Z0"

\* the rule the step just taken looked up, read in the state before the step
LookedUp == <<current_state, lastSym', Top(stack)>>

StepTaken == lastOp' = "step"

\* tokens that occur in no key of the table
Unkeyed == {a \in Symbols : \A key \in DOMAIN delta : key[2] # a}

(***************************************************************************)
(* C1. accepts returns true exactly when, replayed from (q0, [Z0]), every  *)
(* symbol of the scanpath has a legal move in its turn, the final state    *)
(* is q6 and Z0 occurs somewhere in the final stack; in every other case   *)
(* (a final state other than q6 included) it returns false.                *)
(***************************************************************************)
C1_AcceptsIffAcceptedRun ==
    lastOp = "accepts" =>
        /\ lastRet = AcceptedRun(scanpath)
        /\ current_state # "q6" => lastRet = FALSE

\* accepts has returned true on a run that left markers above the floor
C1_Witness ==
    /\ lastOp = "accepts"
    /\ lastRet = TRUE
    /\ current_state = "q6"
    /\ Len(stack) > 1
    /\ Len(scanpath) > 5

(***************************************************************************)
(* C2. A step whose (state, symbol, top) has no rule returns false and     *)
(* leaves state and stack as they were; so does every step on a token      *)
(* that occurs in no key of the table ("C", "A", a foreign token).         *)
(***************************************************************************)
C2_MissLeavesConfiguration ==
    [][ (StepTaken /\ (LookedUp \notin DOMAIN delta \/ lastSym' \in Unkeyed))
          => /\ lastRet' = FALSE
             /\ current_state' = current_state
             /\ stack' = stack ]_vars

\* a step on "C" has failed in the verification state
C2_Witness ==
    /\ lastOp = "step"
    /\ lastSym = "C"
    /\ lastRet = FALSE
    /\ current_state = "q5"
    /\ {"C", "A", Foreign} \subseteq Unkeyed

(***************************************************************************)
(* C3 as stated. On a successful step whose rule has a non-empty           *)
(* replacement, the LAST element of the replacement, as the table writes   *)
(* it, is the new stack top.                                               *)
(***************************************************************************)
C3_LastElementOnTop ==
    [][ (StepTaken /\ lastRet' = TRUE /\ LookedUp \in DOMAIN delta
             /\ delta[LookedUp][2] # <<>>)
          => Top(stack') = delta[LookedUp][2][Len(delta[LookedUp][2])] ]_vars

(***************************************************************************)
(* What step does instead of C3 (lines 133-136): on a successful step      *)
(* whose rule has a non-empty replacement, the old top is popped and the   *)
(* items of reversed(stack_action) are appended, so that the FIRST element *)
(* of the replacement, as the table writes it, is the new stack top, the   *)
(* i-th element lies i-1 below the top, and what lay beneath the old top   *)
(* is unchanged.                                                           *)
(***************************************************************************)
C3_FirstElementOnTop ==
    [][ (StepTaken /\ lastRet' = TRUE /\ LookedUp \in DOMAIN delta
             /\ delta[LookedUp][2] # <<>>)
          => LET replacement == delta[LookedUp][2]
             IN  /\ Len(stack') = Len(stack) - 1 + Len(replacement)
                 /\ \A i \in 1..(Len(stack) - 1) : stack'[i] = stack[i]
                 /\ \A i \in 1..Len(replacement) :
                        stack'[Len(stack') + 1 - i] = replacement[i]
                 /\ Top(stack') = replacement[1] ]_vars

\* the rule (q1, R, Z0) -> (q2, [Rm, Z0]) has fired: Rm, its first element,
\* is on top
C3_Witness ==
    /\ lastOp = "step"
    /\ lastSym = "R"
    /\ lastRet = TRUE
    /\ current_state = "q2"
    /\ stack = <<"Z0", "Rm">>

(***************************************************************************)
(* C4. In every reachable configuration the stack is non-empty and its     *)
(* bottom element is Z0 (so step never takes its empty-stack branch), and  *)
(* every accepted run ends with Z0 in the stack.                           *)
(***************************************************************************)
C4_FloorNeverRemoved ==
    /\ stack # <<>>
    /\ stack[1] = "Z0"
    /\ (lastOp = "accepts" /\ lastRet = TRUE) => \E i \in DOMAIN stack : stack[i] = "Z0"
    /\ \A i \in 0..Len(scanpath) :
           /\ Replay(scanpath)[i].stack # <<>>
           /\ Replay(scanpath)[i].stack[1] = "Z0"

\* confirms have unwound the stack as far as they can, and the floor is there
C4_Witness ==
    /\ lastOp = "step"
    /\ lastSym = Confirm
    /\ lastRet = TRUE
    /\ current_state = "q5"
    /\ stack = <<"Z0", "Rm">>

(***************************************************************************)
(* C5 as stated. A completion step ("O" read in q5 with a legal top)       *)
(* moves to q6 and leaves the stack equal to exactly [Z0]; hence whenever  *)
(* accepts returns true the stack holds only Z0.                           *)
(***************************************************************************)
C5_CompletionLeavesOnlyFloor ==
    /\ (lastOp = "step" /\ lastSym = "O" /\ lastRet = TRUE /\ current_state = "q6")
           => stack = <<"Z0">>
    /\ (lastOp = "accepts" /\ lastRet = TRUE) => stack = <<"Z0">>

(***************************************************************************)
(* C6 as stated. In every reachable configuration whose state is q5, step  *)
(* on any lead symbol and on any feature symbol succeeds, whichever marker *)
(* is on top, and leaves state and stack unchanged.                        *)
(***************************************************************************)
C6_RevisitAlwaysLegal ==
    current_state = "q5" =>
        \A symbol \in Leads \cup Features :
            step(Current, symbol) = [ret |-> TRUE, cfg |-> Current]

(***************************************************************************)
(* C7. reset leaves (q0, [Z0]), the configuration of a freshly built       *)
(* engine, whatever calls came before it, a reset included.                *)
(***************************************************************************)
C7_ResetYieldsInitial ==
    lastOp = "reset" => current_state = "q0" /\ stack = <<"Z0">>

\* reset has been called on an engine that was away from (q0, [Z0])
C7_Witness ==
    /\ lastOp = "reset"
    /\ reused = TRUE

(***************************************************************************)
(* C8. Whatever configuration earlier calls left, accepts,                 *)
(* get_max_stack_depth and compute_vcs return the value, and leave the     *)
(* state and stack, that they do on a freshly built engine.                *)
(***************************************************************************)
C8_NoStateSurvives ==
    LET observed == [ret |-> lastRet, cfg |-> Current]
        fresh == Config("q0", <<"Z0">>)
    IN  /\ lastOp = "accepts" => observed = accepts(fresh, scanpath)
        /\ lastOp = "get_max_stack_depth" =>
               observed = get_max_stack_depth(fresh, scanpath)
        /\ lastOp = "compute_vcs" => observed = compute_vcs(fresh, scanpath)

\* the expert scanpath has been accepted by an engine that a caller had
\* stepped away from (q0, [Z0])
C8_Witness ==
    /\ lastOp = "accepts"
    /\ reused = TRUE
    /\ lastRet = TRUE
    /\ Len(scanpath) = 16

(***************************************************************************)
(* C9. get_max_stack_depth returns the largest len(stack) - 1 seen after   *)
(* each symbol when the scanpath is replayed from (q0, [Z0]) with failed   *)
(* steps as no-ops; it is never negative and is 0 for the empty scanpath.  *)
(***************************************************************************)
C9_MaxDepthOfLenientReplay ==
    lastOp = "get_max_stack_depth" =>
        LET depths == {Len(Replay(scanpath)[i].stack) - 1 : i \in 1..Len(scanpath)}
        IN  /\ lastRet >= 0
            /\ scanpath = <<>> => lastRet = 0
            /\ \A d \in depths : d <= lastRet
            /\ scanpath # <<>> => lastRet \in depths

\* the depth of a scanpath whose first symbol has no legal move
C9_Witness ==
    /\ lastOp = "get_max_stack_depth"
    /\ scanpath = <<"R", "O", "R", "II">>
    /\ lastRet = 2

(***************************************************************************)
(* C10. compute_vcs is exactly 1.0 when the scanpath is accepted; otherwise*)
(* it is min(k/6, 1) for k the number of confirm tokens in the scanpath:   *)
(* it lies in [0, 1], is non-decreasing in k, and on a rejected scanpath   *)
(* is 1.0 exactly when k >= 6.                                             *)
(***************************************************************************)
C10_ScoreContract ==
    lastOp = "compute_vcs" =>
        LET k == Len(SelectSeq(scanpath, LAMBDA a : a = Confirm))
            capped == IF k <= 6 THEN k ELSE 6
        IN  /\ AcceptedRun(scanpath) => lastRet = <<1, 1>>
            /\ ~AcceptedRun(scanpath) =>
                   /\ ScoreEq(lastRet, <<capped, 6>>)
                   /\ ScoreEq(lastRet, <<1, 1>>) <=> k >= 6
                   /\ \A j \in 0..k : ScoreLeq(MinWithOne(j), lastRet)
            /\ ScoreLeq(<<0, 1>>, lastRet)
            /\ ScoreLeq(lastRet, <<1, 1>>)

\* a rejected scanpath with six confirms scores 1.0
C10_Witness ==
    /\ lastOp = "compute_vcs"
    /\ current_state # "q6"
    /\ Len(SelectSeq(scanpath, LAMBDA a : a = Confirm)) = 6
    /\ lastRet = <<1, 1>>

\* the worked example of the demo and the expert pattern of the tests
WorkedExample == <<"O", "R", "II", "P", "Q", "V", Confirm, Confirm, "O">>
ExpertPattern == <<"O", "R", "II", "P", "Q", "S", "T", "V1", "P", "Q", "V", "II",
                   Confirm, "V1", Confirm, "O">>

(***************************************************************************)
(* C11. accepts returns true for the worked example O R II P Q V c c O and *)
(* for the expert pattern O R II P Q S T V1 P Q V II c V1 c O (c the       *)
(* confirm token): every step of each succeeds and the run ends in q6.     *)
(***************************************************************************)
C11_ReferenceScanpathsAccepted ==
    (lastOp = "accepts" /\ scanpath \in {WorkedExample, ExpertPattern}) =>
        /\ lastRet = TRUE
        /\ current_state = "q6"
        /\ EveryStepSucceeds(scanpath)

\* accepts has run on the worked example
C11_Witness ==
    /\ lastOp = "accepts"
    /\ scanpath = WorkedExample
    /\ lastRet = TRUE
    /\ ExpertPattern \in ReferenceScanpaths

(***************************************************************************)
(* C12. Every scanpath that holds no "V" token is rejected by accepts: its *)
(* replay never enters q5 or q6, which lie behind a "V" step.              *)
(***************************************************************************)
C12_NoVerificationRejected ==
    /\ \A i \in 0..Len(scanpath) :
           Replay(scanpath)[i].state \in {"q5", "q6"}
               => \E j \in 1..i : scanpath[j] = "V"
    /\ (lastOp = "accepts" /\ \A j \in DOMAIN scanpath : scanpath[j] # "V")
           => lastRet = FALSE

\* accepts has rejected the novice pattern of the tests
C12_Witness ==
    /\ lastOp = "accepts"
    /\ scanpath = <<"O", "R", "II", "P", "Q", "V1", "P">>
    /\ lastRet = FALSE
    /\ current_state = "q4"

(***************************************************************************)
(* C13. Every scanpath whose last token is not "O", the empty scanpath     *)
(* included, is rejected by accepts.                                       *)
(***************************************************************************)
C13_UnclosedRejected ==
    (lastOp = "accepts" /\ (scanpath = <<>> \/ scanpath[Len(scanpath)] # "O"))
        => lastRet = FALSE

\* accepts has rejected a verification that was started and not closed
C13_Witness ==
    /\ lastOp = "accepts"
    /\ scanpath = <<"O", "R", "II", "P", "Q", "V", Confirm>>
    /\ lastRet = FALSE
    /\ current_state = "q5"

(***************************************************************************)
(* C14. In q5 a confirm step with Fm, Lm or Vm on top succeeds, stays in   *)
(* q5 and removes exactly the top element; with Rm on top it succeeds,     *)
(* stays in q5 and leaves the stack as it was.                             *)
(***************************************************************************)
C14_ConfirmDischargesOne ==
    [][ (StepTaken /\ lastSym' = Confirm /\ current_state = "q5")
          => /\ Top(stack) \in {"Fm", "Lm", "Vm"} =>
                    /\ lastRet' = TRUE
                    /\ current_state' = "q5"
                    /\ Len(stack') = Len(stack) - 1
                    /\ \A i \in 1..Len(stack') : stack'[i] = stack[i]
             /\ Top(stack) = "Rm" =>
                    /\ lastRet' = TRUE
                    /\ current_state' = "q5"
                    /\ stack' = stack ]_vars

\* a confirm has discharged the verification marker of a feature-level
\* verification
C14_Witness ==
    /\ lastOp = "step"
    /\ lastSym = Confirm
    /\ lastRet = TRUE
    /\ current_state = "q5"
    /\ stack = <<"Z0", "Rm", "Lm", "Fm">>

(***************************************************************************)
(* C15. When a step fails, accepts returns false at once: the state and    *)
(* stack it leaves are those reached after the longest prefix of the       *)
(* scanpath whose steps all succeeded, whatever follows the failing symbol.*)
(***************************************************************************)
C15_ShortCircuit ==
    (lastOp = "accepts" /\ ~EveryStepSucceeds(scanpath)) =>
        LET failing == CHOOSE i \in 1..Len(scanpath) :
                /\ ~step(Replay(scanpath)[i - 1], scanpath[i]).ret
                /\ \A j \in 1..(i - 1) :
                       step(Replay(scanpath)[j - 1], scanpath[j]).ret
        IN  /\ lastRet = FALSE
            /\ Current = Replay(scanpath)[failing - 1]

\* accepts has stopped at the first symbol of a scanpath whose later symbols
\* all have legal moves
C15_Witness ==
    /\ lastOp = "accepts"
    /\ scanpath = <<"R", "O", "R", "II">>
    /\ lastRet = FALSE
    /\ current_state = "q0"
    /\ Replay(scanpath)[Len(scanpath)].state = "q3"

(***************************************************************************)
(* C16. A lead symbol read in q4 with Fm on top succeeds, moves to q3,     *)
(* discards that Fm and leaves Lm on top with Rm directly beneath it, the  *)
(* stack below the discarded Fm unchanged: the stack is one element longer.*)
(***************************************************************************)
C16_NewLeadFromFeature ==
    [][ (StepTaken /\ lastSym' \in Leads /\ current_state = "q4" /\ Top(stack) = "Fm")
          => /\ lastRet' = TRUE
             /\ current_state' = "q3"
             /\ Len(stack') = Len(stack) + 1
             /\ stack'[Len(stack')] = "Lm"
             /\ stack'[Len(stack') - 1] = "Rm"
             /\ \A i \in 1..(Len(stack) - 1) : stack'[i] = stack[i] ]_vars

\* a second lead has been opened after a feature of the first
C16_Witness ==
    /\ lastOp = "step"
    /\ lastSym = "V1"
    /\ lastRet = TRUE
    /\ current_state = "q3"
    /\ stack = <<"Z0", "Rm", "Lm", "Rm", "Lm">>

\* the number of confirm tokens of the scanpath
Confirmations == Len(SelectSeq(scanpath, LAMBDA a : a = Confirm))

\* the score is below 0.75 = 3/4
BelowThreeQuarters(score) == score[1] * 4 < 3 * score[2]

(***************************************************************************)
(* C17 as stated. For every scanpath that accepts rejects, compute_vcs     *)
(* returns a value strictly below 0.75.                                    *)
(***************************************************************************)
C17_RejectedScoresLow ==
    (lastOp = "compute_vcs" /\ ~AcceptedRun(scanpath)) => BelowThreeQuarters(lastRet)

(***************************************************************************)
(* C17 amended. For every scanpath that accepts rejects, compute_vcs       *)
(* returns a value strictly below 0.75 exactly when the scanpath holds at  *)
(* most four confirm tokens; with five it returns 5/6 and with six or more *)
(* 1.0. Every accepted scanpath scores 1.0.                                *)
(***************************************************************************)
C17_RejectedScoresLowUpToFour ==
    lastOp = "compute_vcs" =>
        /\ ~AcceptedRun(scanpath) =>
               /\ BelowThreeQuarters(lastRet) <=> Confirmations <= 4
               /\ Confirmations = 5 => ScoreEq(lastRet, <<5, 6>>)
               /\ Confirmations >= 6 => ScoreEq(lastRet, <<1, 1>>)
        /\ AcceptedRun(scanpath) => ScoreEq(lastRet, <<1, 1>>)

\* a rejected scanpath with five confirms has scored 5/6
C17_Witness ==
    /\ lastOp = "compute_vcs"
    /\ ~AcceptedRun(scanpath)
    /\ Confirmations = 5
    /\ lastRet = <<5, 6>>

(***************************************************************************)
(* C18. In every reachable configuration: q0 and q1 have stack [Z0]; q2    *)
(* has Rm on top, q3 Lm, q4 Fm; q5 has Rm, Lm, Fm or Vm on top, never Z0   *)
(* (so the rule (q5, O, Z0) never fires); q6 has Z0 on top.                *)
(***************************************************************************)
C18_StateDeterminesTop ==
    /\ current_state \in {"q0", "q1"} => stack = <<"Z0">>
    /\ current_state = "q2" => Top(stack) = "Rm"
    /\ current_state = "q3" => Top(stack) = "Lm"
    /\ current_state = "q4" => Top(stack) = "Fm"
    /\ current_state = "q5" => Top(stack) \in {"Rm", "Lm", "Fm", "Vm"}
    /\ current_state = "q6" => Top(stack) = "Z0"
    /\ \A i \in 0..Len(scanpath) :
           Replay(scanpath)[i].state = "q5" => Top(Replay(scanpath)[i].stack) # "Z0"

\* a completion step has put Z0 on top of the markers it left
C18_Witness ==
    /\ lastOp = "step"
    /\ lastSym = "O"
    /\ lastRet = TRUE
    /\ current_state = "q6"
    /\ Top(stack) = "Z0"
    /\ Len(stack) = 4

\* what accepts has returned agrees with q6 being entered on the last token only
AcceptingStateEnteredLast ==
    lastOp = "accepts" =>
        /\ (\E i \in 0..(Len(scanpath) - 1) : Replay(scanpath)[i].state = "q6")
               => lastRet = FALSE
        /\ lastRet = TRUE =>
               /\ scanpath # <<>>
               /\ Replay(scanpath)[Len(scanpath)].state = "q6"
               /\ \A i \in 0..(Len(scanpath) - 1) : Replay(scanpath)[i].state # "q6"

(***************************************************************************)
(* C19. q6 is absorbing and dead: in q6 every step on every symbol fails   *)
(* and leaves the configuration as it was; accepts rejects every scanpath  *)
(* with a token after the completing "O", and an accepted scanpath enters  *)
(* q6 exactly once, on its last token.                                     *)
(***************************************************************************)
C19_AcceptingStateIsDead ==
    /\ current_state = "q6" =>
           \A symbol \in Symbols :
               step(Current, symbol) = [ret |-> FALSE, cfg |-> Current]
    /\ (lastOp = "step" /\ lastRet = TRUE) => current_state # "q6" \/ lastSym = "O"
    /\ AcceptingStateEnteredLast

\* a step has failed in q6, and accepts has rejected the worked example
\* followed by one more token
C19_Witness ==
    /\ /\ lastOp = "step"
       /\ lastSym = "O"
       /\ lastRet = FALSE
       /\ current_state = "q6"
       /\ scanpath = WorkedExample \o <<"O">>
       /\ accepts(Fresh, scanpath).ret = FALSE
       /\ accepts(Fresh, scanpath).cfg.state = "q6"

(***************************************************************************)
(* C20 as stated. The table built by _build_transitions holds exactly 47   *)
(* transitions, 47 distinct (state, symbol, stack_top) keys, and no key is *)
(* assigned more than once while it is built; the engine consults that     *)
(* table in every configuration.                                           *)
(***************************************************************************)
C20_FortySevenTransitions ==
    current_state \in Q =>
        /\ Cardinality(DOMAIN delta) = 47
        /\ Len(Assignments) = 47
        /\ \A i, j \in DOMAIN Assignments :
               Assignments[i][1] = Assignments[j][1] => i = j

====
